---- MODULE Spec2Model ----
(***************************************************************************)
(* Model of load-assignment/script.js: two DOMContentLoaded callbacks      *)
(* register listeners on the same page elements (uploadForm, dropArea,     *)
(* fileInput, fileList).  The first callback (lines 1-94) keeps its own    *)
(* selectedFiles, deduplicated on (name, size), and posts to /upload; the  *)
(* second callback (lines 95-166) keeps another selectedFiles without      *)
(* deduplication and posts to /notes/upload.  Every DOM event runs the     *)
(* listeners of the first callback and then those of the second.           *)
(*                                                                         *)
(* Texts (status messages, response bodies, error messages) are sequences  *)
(* of string fragments whose concatenation is the JavaScript string; the   *)
(* fragmentation is chosen so that every occurrence of the substring       *)
(* 'JSON' is a fragment of its own, which makes String.includes('JSON')    *)
(* a membership test.                                                      *)
(***************************************************************************)
EXTENDS Integers, Sequences, FiniteSets, TLC

\* ------------------------------------------------------------------ bounds
MaxSteps == 5      \* events (DOM events and promise settlements) explored
MaxCands == 2      \* longest FileList handed to one drop / change event
MaxSel2  == 0      \* files the second callback may hold (it never deduplicates)
MaxReqs  == 2      \* suspended executions of each submit listener
MaxUser  == 3      \* events explored besides the first listener's settlements, when those are not counted
MaxStepsSecond == 4  \* events explored when the second callback may hold files
MaxSelSecond   == 2  \* files the second callback may hold then

\* ------------------------------------------------------------- input files
\* File handles: id is the object identity, (name, size) the dedup key.
\* F1 and F2 are distinct handles with the same name and size; F3 has the
\* same name and another size.
F1 == [id |-> 1, name |-> "a.pdf", size |-> 10]
F2 == [id |-> 2, name |-> "a.pdf", size |-> 10]
F3 == [id |-> 3, name |-> "a.pdf", size |-> 20]
Files == {F1, F2, F3}

\* The FileList of one event: up to MaxCands distinct File objects (two of
\* them may still agree on name and size).
RECURSIVE ListsUpTo(_, _)
ListsUpTo(S, n) ==
  IF n = 0 THEN { <<>> }
  ELSE LET shorter == ListsUpTo(S, n - 1)
       IN  shorter \cup { Append(s, x) : s \in { t \in shorter : Len(t) = n - 1 },
                                         x \in S }

NoRepeat(s) == \A i, j \in 1..Len(s) : i # j => s[i] # s[j]

FileLists == { s \in ListsUpTo(Files, MaxCands) : NoRepeat(s) }

\* ------------------------------------------------------------------- state
VARIABLES
  selectedFiles,    \* first callback's selectedFiles (line 8)
  selectedFiles2,   \* second callback's selectedFiles (line 101)
  fileListEl,       \* children of #fileList, shared by both callbacks
  status,           \* #status: [text, cls]
  highlight,        \* dropArea carries the class 'highlight'
  reqs,             \* suspended executions of the first submit listener
  reqs2,            \* suspended executions of the second submit listener
  form,             \* entries new FormData(form) takes from the page's form
  ev,               \* the event handled last and its input
  steps             \* number of events handled so far (exploration only)

vars == <<selectedFiles, selectedFiles2, fileListEl, status, highlight, reqs, reqs2, form, ev, steps>>

\* ------------------------------------------------------------ sequence aids
RECURSIVE SelectSeqBy(_, _)
Range(s) == { s[i] : i \in 1..Len(s) }
RemoveAt(s, i) == SubSeq(s, 1, i - 1) \o SubSeq(s, i + 1, Len(s))
SelectSeqBy(s, keep) ==
  IF s = <<>> THEN <<>>
  ELSE IF Head(s) \in keep THEN <<Head(s)>> \o SelectSeqBy(Tail(s), keep)
       ELSE SelectSeqBy(Tail(s), keep)

\* ---------------------------------------------------------- first callback
\* line 31: selectedFiles.some(f => f.name === file.name && f.size === file.size)
SameKey(f, g) == f.name = g.name /\ f.size = g.size
AlreadySelectedByName(sel, file) == \E i \in 1..Len(sel) : sel[i].name = file.name
AlreadySelected(sel, file) == \E i \in 1..Len(sel) : SameKey(sel[i], file)

\* An <li> created at line 34 (by = 1, with a remove button) or at line 128
\* (by = 2, text only).
Li(by, file) == [by |-> by, file |-> file]

\* lines 29-45: handleFiles of the first callback, applied to a selection and
\* a list of children; yields both after the forEach.
handleFilesReplace(sel, list, fileList) ==
  [sel |-> fileList, list |-> [i \in 1..Len(fileList) |-> Li(1, fileList[i])]]
RECURSIVE handleFiles(_, _, _)
handleFiles(sel, list, fileList) ==
  IF fileList = <<>> THEN [sel |-> sel, list |-> list]
  ELSE LET file == Head(fileList)
       IN  IF AlreadySelected(sel, file)
           THEN handleFiles(sel, list, Tail(fileList))
           ELSE handleFiles(Append(sel, file), Append(list, Li(1, file)), Tail(fileList))

\* lines 39-42: the remove button's onclick, for the <li> of `file`.
RemoveFilterKeepsAll(sel, file) == sel
RemoveFilter(sel, file) == SelectSeqBy(sel, { f \in Range(sel) : f # file })

\* --------------------------------------------------------- second callback
\* lines 125-132: handleFiles of the second callback.
RECURSIVE handleFiles2(_, _, _)
handleFiles2(sel, list, files) ==
  IF files = <<>> THEN [sel |-> sel, list |-> list]
  ELSE handleFiles2(Append(sel, Head(files)), Append(list, Li(2, Head(files))), Tail(files))

\* ------------------------------------------------------------------- texts
EmptyText == <<>>
NoStatus  == [text |-> EmptyText, cls |-> ""]

\* String.prototype.includes on a text: `word` occurs as a fragment.
Includes(text, word) == \E i \in 1..Len(text) : text[i] = word

\* Number-to-string conversion inside the template literals of lines 62, 73.
NumText(n) ==
  CASE n = 0 -> "0" [] n = 1 -> "1" [] n = 2 -> "2" [] n = 3 -> "3" [] n = 4 -> "4"
    [] n = 200 -> "200" [] n = 201 -> "201" [] n = 500 -> "500"
    [] OTHER -> "many"

SelectAtLeastOne   == <<"Select at least one file">>                \* line 53
Uploading(n)       == <<"Uploading ", NumText(n), " file(s)...">>   \* line 62
UploadSuccessful   == <<"Upload successful!">>                      \* line 79
UploadFailed       == <<"Upload failed">>                           \* line 85
ResponseInvalid    == <<"Server response invalid">>                 \* line 90
HttpError(http, text) == <<"HTTP ", NumText(http), ": ">> \o text   \* line 73

\* Response bodies the server (an external collaborator) may send.
BodySuccess  == <<"{\"status\":\"success\"}">>
BodyTooLarge == <<"{\"status\":\"error\",\"message\":\"too large\"}">>
BodyEmptyMsg == <<"{\"status\":\"error\",\"message\":\"\"}">>
BodyEmptyObj == <<"{}">>
BodyNull     == <<"null">>
BodyHtml     == <<"<html>Internal Server Error</html>">>
BodyJsonWord == <<"Invalid ", "JSON", " payload">>
Bodies == {BodySuccess, BodyTooLarge, BodyEmptyMsg, BodyEmptyObj, BodyNull, BodyHtml, BodyJsonWord}

HttpStatuses == {200, 201, 500}

\* Message of the TypeError a rejected fetch() or res.text() carries.
FailedToFetch == <<"Failed to fetch">>
TransportMessages == {FailedToFetch}

\* Messages of the errors the engine throws at lines 76 and 78.
SyntaxErrorMessage == <<"Unexpected token in ", "JSON">>
TypeErrorNull      == <<"Cannot read properties of null (reading 'status')">>

\* line 76: JSON.parse on the bodies above.  ok: no SyntaxError; isNull: the
\* value is null; otherwise the value is an object with the fields present.
Parsed(isNull, hasStatus, st, hasMessage, msg) ==
  [ok |-> TRUE, isNull |-> isNull, hasStatus |-> hasStatus, status |-> st,
   hasMessage |-> hasMessage, message |-> msg]
NotParsed == [ok |-> FALSE, isNull |-> FALSE, hasStatus |-> FALSE, status |-> "",
              hasMessage |-> FALSE, message |-> EmptyText]
JSONparse(text) ==
  CASE text = BodySuccess  -> Parsed(FALSE, TRUE, "success", FALSE, EmptyText)
    [] text = BodyTooLarge -> Parsed(FALSE, TRUE, "error", TRUE, <<"too large">>)
    [] text = BodyEmptyMsg -> Parsed(FALSE, TRUE, "error", TRUE, EmptyText)
    [] text = BodyEmptyObj -> Parsed(FALSE, FALSE, "", FALSE, EmptyText)
    [] text = BodyNull     -> Parsed(TRUE, FALSE, "", FALSE, EmptyText)
    [] OTHER               -> NotParsed

\* line 72: res.ok
ResOk(http) == http >= 200 /\ http <= 299

\* lines 88-92: the catch block, for an error with message `msg`.  `did` is
\* the set of steps the listener took on the response before the throw.
CaughtInvalid(msg, did) ==
  [text |-> ResponseInvalid, cls |-> "error", clear |-> FALSE, did |-> did]
CaughtClears(msg, did) ==
  [text |-> IF Includes(msg, "JSON") THEN ResponseInvalid ELSE msg,
   cls |-> "error", clear |-> TRUE, did |-> did]
Caught(msg, did) ==
  [text |-> IF Includes(msg, "JSON") THEN ResponseInvalid ELSE msg,
   cls |-> "error", clear |-> FALSE, did |-> did]

\* lines 84-87: the else branch; data.message || 'Upload failed'.
NotSuccess(p, did) ==
  [text |-> IF p.hasMessage /\ p.message # EmptyText THEN p.message ELSE UploadFailed,
   cls |-> "error", clear |-> FALSE, did |-> did \cup {"message"}]

\* lines 78-83: the success branch.
SuccessNoClear(did) ==
  [text |-> UploadSuccessful, cls |-> "success", clear |-> FALSE, did |-> did]
Success(did) ==
  [text |-> UploadSuccessful, cls |-> "success", clear |-> TRUE, did |-> did]

\* lines 72-92: what the first submit listener does with a response of status
\* `http` whose body text is `text`.
Respond(http, text) ==
  IF ~ResOk(http) THEN Caught(HttpError(http, text), {"text"})
  ELSE LET p == JSONparse(text)
       IN  IF ~p.ok THEN Caught(SyntaxErrorMessage, {"text", "parse"})
           ELSE IF p.isNull THEN Caught(TypeErrorNull, {"text", "parse", "status"})
           ELSE IF p.hasStatus /\ p.status = "success"
                THEN Success({"text", "parse", "status"})
                ELSE NotSuccess(p, {"text", "parse", "status"})

\* An entry of a FormData: a text field (isFile is FALSE, file is NoFile) or
\* a file part.
NoFile == [id |-> 0, name |-> "", size |-> 0]
TextEntry(field) == [field |-> field, isFile |-> FALSE, file |-> NoFile]
FilePart(field, file) == [field |-> field, isFile |-> TRUE, file |-> file]

\* line 58: new FormData(form) holds one entry for every named control of
\* the page's form.  The page gives the form its text inputs (here title and
\* subject) and decides whether the file input is one of the named controls.
\* The input is empty whenever a submit listener runs (lines 26 and 122 empty
\* it after every change, form.reset() too), and an empty named file input
\* contributes one part holding an empty File (name '', size 0).
EmptyFile == [id |-> 4, name |-> "", size |-> 0]
FormTexts == <<TextEntry("title"), TextEntry("subject")>>
FormUnnamedInput == FormTexts
FormNamedInput   == FormTexts \o <<FilePart("files", EmptyFile)>>
Forms == {FormUnnamedInput, FormNamedInput}

\* lines 58-59: the entries of the form, then one part per selected file.
FormData(sel) == form \o [i \in 1..Len(sel) |-> FilePart("files", sel[i])]

\* A suspended execution of the first submit listener: at the await of line
\* 65 (pc = "fetch") or of line 69 (pc = "text", the status being known).
RequestRefetch(pc, parts, http) == [pc |-> "fetch", parts |-> parts, http |-> http]
Request(pc, parts, http) == [pc |-> pc, parts |-> parts, http |-> http]

\* Recorded with an add event: the file whose remove button was clicked by
\* the event just before it, if that was a remove click.
JustRemoved == IF ev.kind = "remove" THEN <<ev.file>> ELSE <<>>

\* Recorded with the end of a submission: the selection is no longer what
\* the request carries.
Changed(i) == reqs[i].parts # FormData(selectedFiles)

Init ==
  /\ selectedFiles = <<>>
  /\ selectedFiles2 = <<>>
  /\ fileListEl = <<>>
  /\ status = NoStatus
  /\ reqs = <<>>
  /\ reqs2 = <<>>
  /\ form \in Forms
  /\ highlight = FALSE
  /\ ev = [kind |-> "load"]
  /\ steps = 0

\* lines 12-15 and 105-108: dragover / dragenter on the drop area.
DragOver ==
  /\ highlight' = TRUE
  /\ ev' = [kind |-> "dragover"]
  /\ UNCHANGED <<form, selectedFiles, selectedFiles2, fileListEl, status, reqs, reqs2>>

\* lines 17-20 and 110-112: dragleave on the drop area.
DragLeave ==
  /\ highlight' = FALSE
  /\ ev' = [kind |-> "dragleave"]
  /\ UNCHANGED <<form, selectedFiles, selectedFiles2, fileListEl, status, reqs, reqs2>>

\* lines 17-22 and 114-118: drop on the drop area; both callbacks receive
\* e.dataTransfer.files, the first one's listeners run first.
Drop(files) ==
  /\ LET r1 == handleFiles(selectedFiles, fileListEl, files)
         r2 == handleFiles2(selectedFiles2, r1.list, files)
     IN  /\ selectedFiles' = r1.sel
         /\ selectedFiles2' = r2.sel
         /\ fileListEl' = r2.list
  /\ highlight' = FALSE
  /\ ev' = [kind |-> "drop", files |-> files, removed |-> JustRemoved]
  /\ UNCHANGED <<form, status, reqs, reqs2>>

\* lines 24-27 and 120-123: change on the file input.  The first listener
\* empties the input (fileInput.value = ''), so the second listener reads an
\* empty fileInput.files.
Change(files) ==
  /\ LET r1 == handleFiles(selectedFiles, fileListEl, files)
         r2 == handleFiles2(selectedFiles2, r1.list, <<>>)
     IN  /\ selectedFiles' = r1.sel
         /\ selectedFiles2' = r2.sel
         /\ fileListEl' = r2.list
  /\ ev' = [kind |-> "change", files |-> files, removed |-> JustRemoved]
  /\ UNCHANGED <<form, status, highlight, reqs, reqs2>>

\* lines 39-42: click on the remove button of the i-th child of #fileList.
RemoveClick(i) ==
  /\ i \in 1..Len(fileListEl)
  /\ fileListEl[i].by = 1
  /\ selectedFiles' = RemoveFilter(selectedFiles, fileListEl[i].file)
  /\ fileListEl' = RemoveAt(fileListEl, i)
  /\ ev' = [kind |-> "remove", file |-> fileListEl[i].file]
  /\ UNCHANGED <<form, selectedFiles2, status, highlight, reqs, reqs2>>

\* lines 47-65: the first submit listener up to its first await (or its
\* return at line 55): the status it leaves and the requests suspended.
ValidateSkipped(sel, pending) ==
  [status |-> [text |-> Uploading(Len(sel)), cls |-> "loading"],
   reqs |-> Append(pending, Request("fetch", FormData(sel), 0))]
Validate(sel, pending) ==
  IF Len(sel) = 0
  THEN [status |-> [text |-> SelectAtLeastOne, cls |-> "error"], reqs |-> pending]
  ELSE [status |-> [text |-> Uploading(Len(sel)), cls |-> "loading"],
        reqs |-> Append(pending, Request("fetch", FormData(sel), 0))]

\* lines 47-65 and 134-149: submit on the form.  The first listener runs to
\* its await or return, then the second listener runs to its await: it
\* calls fetch('/notes/upload') whatever its selection holds.
Submit ==
  /\ status' = Validate(selectedFiles, reqs).status
  /\ reqs' = Validate(selectedFiles, reqs).reqs
  /\ reqs2' = Append(reqs2, "fetch")
  /\ ev' = [kind |-> "submit"]
  /\ UNCHANGED <<form, selectedFiles, selectedFiles2, fileListEl, highlight>>

\* line 65: fetch('/upload') resolves with a response of status `http`; the
\* listener resumes, logs, calls res.text() and suspends at line 69.
FetchResolve(i, http) ==
  /\ i \in 1..Len(reqs)
  /\ reqs[i].pc = "fetch"
  /\ reqs' = [reqs EXCEPT ![i] = Request("text", reqs[i].parts, http)]
  /\ ev' = [kind |-> "response", i |-> i, http |-> http]
  /\ UNCHANGED <<form, selectedFiles, selectedFiles2, fileListEl, status, highlight, reqs2>>

\* The state the first listener leaves when it finishes with outcome `o`.
Finish(i, o) ==
  /\ status' = [text |-> o.text, cls |-> o.cls]
  /\ selectedFiles' = IF o.clear THEN <<>> ELSE selectedFiles
  /\ fileListEl' = IF o.clear THEN <<>> ELSE fileListEl
  /\ reqs' = RemoveAt(reqs, i)
  /\ UNCHANGED <<form, selectedFiles2, highlight, reqs2>>

\* line 65: fetch('/upload') rejects; control passes to the catch block.
FetchReject(i, msg) ==
  /\ i \in 1..Len(reqs)
  /\ reqs[i].pc = "fetch"
  /\ Finish(i, Caught(msg, {}))
  /\ ev' = [kind |-> "fetchReject", i |-> i, msg |-> msg, did |-> {}, changed |-> Changed(i)]

\* line 69: res.text() resolves with the body; lines 70-92 run to the end.
TextResolve(i, text) ==
  /\ i \in 1..Len(reqs)
  /\ reqs[i].pc = "text"
  /\ Finish(i, Respond(reqs[i].http, text))
  /\ ev' = [kind |-> "body", i |-> i, http |-> reqs[i].http, text |-> text,
            did |-> Respond(reqs[i].http, text).did, changed |-> Changed(i)]

\* line 69: res.text() rejects (the body stream fails); catch block.
TextReject(i, msg) ==
  /\ i \in 1..Len(reqs)
  /\ reqs[i].pc = "text"
  /\ Finish(i, Caught(msg, {}))
  /\ ev' = [kind |-> "textReject", i |-> i, http |-> reqs[i].http, msg |-> msg, did |-> {},
            changed |-> Changed(i)]

\* line 146: fetch('/notes/upload') resolves; response.json() is awaited.
FetchResolve2(i) ==
  /\ i \in 1..Len(reqs2)
  /\ reqs2[i] = "fetch"
  /\ reqs2' = [reqs2 EXCEPT ![i] = "json"]
  /\ ev' = [kind |-> "response2"]
  /\ UNCHANGED <<form, selectedFiles, selectedFiles2, fileListEl, status, highlight, reqs>>

\* lines 146, 162-164: fetch('/notes/upload') rejects; alert only.
FetchReject2(i) ==
  /\ i \in 1..Len(reqs2)
  /\ reqs2[i] = "fetch"
  /\ reqs2' = RemoveAt(reqs2, i)
  /\ ev' = [kind |-> "fetchReject2"]
  /\ UNCHANGED <<form, selectedFiles, selectedFiles2, fileListEl, status, highlight, reqs>>

\* lines 151-164: response.json() settles.  success: data.status is
\* 'success' (lines 153-158); otherwise an alert only (line 160 or 163).
JsonSettle2(i, success) ==
  /\ i \in 1..Len(reqs2)
  /\ reqs2[i] = "json"
  /\ reqs2' = RemoveAt(reqs2, i)
  /\ fileListEl' = IF success THEN <<>> ELSE fileListEl
  /\ selectedFiles2' = IF success THEN <<>> ELSE selectedFiles2
  /\ ev' = [kind |-> "body2", success |-> success]
  /\ UNCHANGED <<form, selectedFiles, status, highlight, reqs>>

\* What the exploration covers: at most MaxSteps events (Budget), at most
\* MaxSel2 files held by the second callback and at most MaxReqs suspended
\* executions of each submit listener (Caps).
Budget ==
  /\ steps < MaxSteps
  /\ steps' = steps + 1

Caps ==
  /\ Len(selectedFiles2') <= MaxSel2
  /\ Len(reqs') <= MaxReqs
  /\ Len(reqs2') <= MaxReqs

Next ==
  \/ Budget /\ DragOver /\ Caps
  \/ Budget /\ DragLeave /\ Caps
  \/ \E files \in FileLists : Budget /\ Drop(files) /\ Caps
  \/ \E files \in FileLists : Budget /\ Change(files) /\ Caps
  \/ \E i \in 1..Len(fileListEl) : Budget /\ RemoveClick(i) /\ Caps
  \/ Budget /\ Submit /\ Caps
  \/ \E i \in 1..Len(reqs), http \in HttpStatuses : Budget /\ FetchResolve(i, http) /\ Caps
  \/ \E i \in 1..Len(reqs), msg \in TransportMessages : Budget /\ FetchReject(i, msg) /\ Caps
  \/ \E i \in 1..Len(reqs), text \in Bodies : Budget /\ TextResolve(i, text) /\ Caps
  \/ \E i \in 1..Len(reqs), msg \in TransportMessages : Budget /\ TextReject(i, msg) /\ Caps
  \/ \E i \in 1..Len(reqs2) : Budget /\ FetchResolve2(i) /\ Caps
  \/ \E i \in 1..Len(reqs2) : Budget /\ FetchReject2(i) /\ Caps
  \/ \E i \in 1..Len(reqs2), success \in BOOLEAN : Budget /\ JsonSettle2(i, success) /\ Caps

Spec == Init /\ [][Next]_vars

\* The same program with the settlements of the first submit listener's
\* promises left uncounted: at most MaxUser other events (BudgetUser), and
\* every promise of the first submit listener is eventually settled by the
\* browser (weak fairness of Settle).
BudgetUser ==
  /\ steps < MaxUser
  /\ steps' = steps + 1

Uncounted == steps' = steps

\* lines 65 and 69: the promise the i-th suspended execution awaits settles.
Settle(i) ==
  /\ i \in 1..Len(reqs)
  /\ Uncounted
  /\ \/ \E http \in HttpStatuses : FetchResolve(i, http)
     \/ \E msg \in TransportMessages : FetchReject(i, msg)
     \/ \E text \in Bodies : TextResolve(i, text)
     \/ \E msg \in TransportMessages : TextReject(i, msg)

NextLive ==
  \/ BudgetUser /\ DragOver /\ Caps
  \/ BudgetUser /\ DragLeave /\ Caps
  \/ \E files \in FileLists : BudgetUser /\ Drop(files) /\ Caps
  \/ \E files \in FileLists : BudgetUser /\ Change(files) /\ Caps
  \/ \E i \in 1..Len(fileListEl) : BudgetUser /\ RemoveClick(i) /\ Caps
  \/ BudgetUser /\ Submit /\ Caps
  \/ \E i \in 1..Len(reqs), http \in HttpStatuses : Uncounted /\ FetchResolve(i, http)
  \/ \E i \in 1..Len(reqs), msg \in TransportMessages : Uncounted /\ FetchReject(i, msg)
  \/ \E i \in 1..Len(reqs), text \in Bodies : Uncounted /\ TextResolve(i, text)
  \/ \E i \in 1..Len(reqs), msg \in TransportMessages : Uncounted /\ TextReject(i, msg)
  \/ \E i \in 1..Len(reqs2) : BudgetUser /\ FetchResolve2(i) /\ Caps
  \/ \E i \in 1..Len(reqs2) : BudgetUser /\ FetchReject2(i) /\ Caps
  \/ \E i \in 1..Len(reqs2), success \in BOOLEAN : BudgetUser /\ JsonSettle2(i, success) /\ Caps

SpecLive ==
  /\ Init
  /\ [][NextLive]_vars
  /\ \A i \in 1..MaxReqs : WF_vars(Settle(i))

\* The same program explored with the second callback holding up to
\* MaxSelSecond files, over at most MaxStepsSecond events.
BudgetSecond ==
  /\ steps < MaxStepsSecond
  /\ steps' = steps + 1

CapsSecond ==
  /\ Len(selectedFiles2') <= MaxSelSecond
  /\ Len(reqs') <= MaxReqs
  /\ Len(reqs2') <= MaxReqs

NextSecond ==
  \/ BudgetSecond /\ DragOver /\ CapsSecond
  \/ BudgetSecond /\ DragLeave /\ CapsSecond
  \/ \E files \in FileLists : BudgetSecond /\ Drop(files) /\ CapsSecond
  \/ \E files \in FileLists : BudgetSecond /\ Change(files) /\ CapsSecond
  \/ \E i \in 1..Len(fileListEl) : BudgetSecond /\ RemoveClick(i) /\ CapsSecond
  \/ BudgetSecond /\ Submit /\ CapsSecond
  \/ \E i \in 1..Len(reqs), http \in HttpStatuses : BudgetSecond /\ FetchResolve(i, http) /\ CapsSecond
  \/ \E i \in 1..Len(reqs), msg \in TransportMessages : BudgetSecond /\ FetchReject(i, msg) /\ CapsSecond
  \/ \E i \in 1..Len(reqs), text \in Bodies : BudgetSecond /\ TextResolve(i, text) /\ CapsSecond
  \/ \E i \in 1..Len(reqs), msg \in TransportMessages : BudgetSecond /\ TextReject(i, msg) /\ CapsSecond
  \/ \E i \in 1..Len(reqs2) : BudgetSecond /\ FetchResolve2(i) /\ CapsSecond
  \/ \E i \in 1..Len(reqs2) : BudgetSecond /\ FetchReject2(i) /\ CapsSecond
  \/ \E i \in 1..Len(reqs2), success \in BOOLEAN : BudgetSecond /\ JsonSettle2(i, success) /\ CapsSecond

SpecSecond == Init /\ [][NextSecond]_vars

\* ------------------------------------------------------------------ claims
AddKinds    == {"drop", "change"}
FinishKinds == {"fetchReject", "body", "textReject"}

NoDup(sel) == \A i, j \in 1..Len(sel) : i # j => ~SameKey(sel[i], sel[j])

\* The indices of `files` that name a key new to `sel` and not named by an
\* earlier element of `files`.
FirstSeen(sel, files) ==
  { i \in 1..Len(files) :
      /\ \A k \in 1..Len(sel) : ~SameKey(sel[k], files[i])
      /\ \A j \in 1..(i - 1) : ~SameKey(files[j], files[i]) }

\* s restricted to the index set I, in increasing order of index.
RECURSIVE Pick(_, _, _)
Pick(s, I, from) ==
  IF from > Len(s) THEN <<>>
  ELSE IF from \in I THEN <<s[from]>> \o Pick(s, I, from + 1)
       ELSE Pick(s, I, from + 1)

\* Entries held before and after a step keep their relative order.
KeepsOrder(old, new) ==
  \A a, b \in 1..Len(old) :
    a < b => \A c, d \in 1..Len(new) : (new[c] = old[a] /\ new[d] = old[b]) => c < d

\* C1: the selection of the first callback never holds two entries with equal
\* (name, size); an add event keeps every entry already selected in place and
\* appends, in the order presented, exactly the candidates whose key is seen
\* for the first time; no event reorders the entries it keeps.
C1_Dedup ==
  /\ []NoDup(selectedFiles)
  /\ [][/\ KeepsOrder(selectedFiles, selectedFiles')
        /\ ev'.kind \in AddKinds =>
             selectedFiles' = selectedFiles \o
               Pick(ev'.files, FirstSeen(selectedFiles, ev'.files), 1)]_vars

\* C1 witness: an add event offered another handle with the key of an entry
\* that was selected before, and a file with a new key after it.
C1_Witness ==
  /\ ev.kind \in AddKinds
  /\ Len(selectedFiles) = 2
  /\ \E i \in 1..Len(ev.files) :
       SameKey(ev.files[i], selectedFiles[1]) /\ ev.files[i] # selectedFiles[1]

\* C2: a submit while the first callback's selection is empty suspends no
\* request of the first listener (no fetch('/upload')) and leaves the status
\* 'Select at least one file' with class error.
C2_EmptySubmit ==
  [][(ev'.kind = "submit" /\ selectedFiles = <<>>) =>
       /\ reqs' = reqs
       /\ status' = [text |-> SelectAtLeastOne, cls |-> "error"]]_vars

\* C2 witness: a submit found the selection empty.
C2_Witness ==
  /\ ev.kind = "submit"
  /\ selectedFiles = <<>>
  /\ status.text = SelectAtLeastOne

\* C3: after a response with status 200 and body {"status":"success"} has
\* been handled, the status shows success and the selection is empty.
C3_Success ==
  (ev.kind = "body" /\ ev.http = 200 /\ ev.text = BodySuccess) =>
    /\ status = [text |-> UploadSuccessful, cls |-> "success"]
    /\ selectedFiles = <<>>

\* C3 witness: such a response was handled after the selection had changed
\* while the request was in flight.
C3_Witness ==
  /\ ev.kind = "body"
  /\ ev.http = 200
  /\ ev.text = BodySuccess
  /\ ev.changed

\* C4 (as claimed): a 2xx response whose body parses and whose parsed status
\* is not "success" (or absent) shows the parsed message if present (read
\* here as present and not empty), else 'Upload failed', with class error,
\* and leaves the selection unchanged.
C4_AsClaimed ==
  [][(/\ ev'.kind = "body"
      /\ ResOk(ev'.http)
      /\ JSONparse(ev'.text).ok
      /\ ~(JSONparse(ev'.text).hasStatus /\ JSONparse(ev'.text).status = "success")) =>
       /\ status'.cls = "error"
       /\ status'.text = IF /\ JSONparse(ev'.text).hasMessage
                            /\ JSONparse(ev'.text).message # EmptyText
                         THEN JSONparse(ev'.text).message
                         ELSE UploadFailed
       /\ selectedFiles' = selectedFiles]_vars

\* C5 (as claimed): a response with status 500 whose body is not JSON shows
\* 'Server response invalid' and no message field of the response is read.
C5_AsClaimed ==
  (ev.kind = "body" /\ ev.http = 500 /\ ~JSONparse(ev.text).ok) =>
    /\ status = [text |-> ResponseInvalid, cls |-> "error"]
    /\ "message" \notin ev.did

\* C6: when fetch rejects, the status shows the message of the failure with
\* class error, the selection is unchanged, and the listener ends without
\* reading or parsing a body.
C6_TransportError ==
  [][ev'.kind = "fetchReject" =>
       /\ status' = [text |-> ev'.msg, cls |-> "error"]
       /\ selectedFiles' = selectedFiles
       /\ reqs' = RemoveAt(reqs, ev'.i)
       /\ ev'.did = {}]_vars

\* C6 witness: a fetch has just been rejected while files were selected, and
\* the status shows 'Failed to fetch'.
C6_Witness ==
  /\ ev.kind = "fetchReject"
  /\ ev.msg = FailedToFetch
  /\ status.text = FailedToFetch
  /\ selectedFiles # <<>>

\* C7 (as claimed): a non-2xx response whose body parses shows the parsed
\* message if there is one, and the 'HTTP <status>: <body>' text otherwise.
C7_AsClaimed ==
  (ev.kind = "body" /\ ~ResOk(ev.http) /\ JSONparse(ev.text).ok) =>
    /\ status.cls = "error"
    /\ status.text = IF ~JSONparse(ev.text).isNull /\ JSONparse(ev.text).hasMessage
                     THEN JSONparse(ev.text).message
                     ELSE HttpError(ev.http, ev.text)

\* C8: when the remove button of f is clicked and the next event hands
\* handleFiles a list holding a file with f's name and size, the first such
\* file of the list is selected afterwards; if it is the whole list, it is
\* appended to the selection.
C8_ReAdd ==
  [][(/\ ev.kind = "remove"
      /\ ev'.kind \in AddKinds
      /\ \E i \in 1..Len(ev'.files) : SameKey(ev'.files[i], ev.file)) =>
       LET i == CHOOSE i \in 1..Len(ev'.files) :
                  /\ SameKey(ev'.files[i], ev.file)
                  /\ \A j \in 1..(i - 1) : ~SameKey(ev'.files[j], ev.file)
       IN  /\ \E k \in 1..Len(selectedFiles') : selectedFiles'[k] = ev'.files[i]
           /\ Len(ev'.files) = 1 => selectedFiles' = Append(selectedFiles, ev'.files[1])]_vars

\* C8 witness: right after a remove click on f, an add event offered another
\* handle with f's name and size while another file stayed selected.
C8_Witness ==
  /\ ev.kind \in AddKinds
  /\ Len(ev.removed) = 1
  /\ Len(ev.files) = 1
  /\ SameKey(ev.files[1], ev.removed[1])
  /\ ev.files[1] # ev.removed[1]
  /\ Len(selectedFiles) = 2
  /\ selectedFiles[2] = ev.files[1]

\* C9: an add event with an empty file list leaves the selection, the
\* children of the list element and the status as they were.
C9_EmptyAdd ==
  [][(ev'.kind \in AddKinds /\ ev'.files = <<>>) =>
       /\ selectedFiles' = selectedFiles
       /\ fileListEl' = fileListEl
       /\ status' = status]_vars

\* C9 witness: an empty file list arrived while files were selected and
\* listed and a status was shown.
C9_Witness ==
  /\ ev.kind \in AddKinds
  /\ ev.files = <<>>
  /\ selectedFiles # <<>>
  /\ fileListEl # <<>>
  /\ status # NoStatus

IsPrefix(s, t) == Len(s) <= Len(t) /\ SubSeq(t, 1, Len(s)) = s
PartsOf(rs) == [i \in 1..Len(rs) |-> rs[i].parts]

\* The file parts of a payload, in order.
RECURSIVE FileParts(_)
FileParts(payload) ==
  IF payload = <<>> THEN <<>>
  ELSE IF Head(payload).isFile THEN <<Head(payload)>> \o FileParts(Tail(payload))
       ELSE FileParts(Tail(payload))

\* C10 (as claimed): a submit with a non-empty selection suspends one request
\* whose file parts are exactly the selection at that moment, in order, each
\* under the field 'files'; the status shows 'Uploading N file(s)...' with N
\* the number of file parts; the selection is not changed by it; and the
\* payload of a request in flight is changed by no later event.
C10_AsClaimed ==
  [][/\ (ev'.kind = "submit" /\ selectedFiles # <<>>) =>
          /\ Len(reqs') = Len(reqs) + 1
          /\ LET parts == FileParts(reqs'[Len(reqs')].parts)
             IN  /\ Len(parts) = Len(selectedFiles)
                 /\ \A k \in 1..Len(parts) :
                      parts[k].field = "files" /\ parts[k].file = selectedFiles[k]
                 /\ status' = [text |-> Uploading(Len(parts)), cls |-> "loading"]
          /\ selectedFiles' = selectedFiles
     /\ IF ev'.kind \in FinishKinds
        THEN PartsOf(reqs') = RemoveAt(PartsOf(reqs), ev'.i)
        ELSE IsPrefix(PartsOf(reqs), PartsOf(reqs'))]_vars

\* C11: while every promise of the first submit listener is eventually
\* settled, whatever is in flight is eventually finished; a request leaves
\* the suspended executions only by one finishing event, which removes that
\* request alone and leaves one outcome (success or error) in the status; and
\* a submit that finds an error displayed is processed like any other: with
\* files selected it suspends one more request and shows the loading status,
\* with none it shows 'Select at least one file'.
C11_Live ==
  /\ (reqs # <<>>) ~> (reqs = <<>>)
  /\ [][/\ IF ev'.kind \in FinishKinds
           THEN /\ reqs' = RemoveAt(reqs, ev'.i)
                /\ status'.cls \in {"success", "error"}
           ELSE Len(reqs') >= Len(reqs)
        /\ (status.cls = "error" /\ ev'.kind = "submit") =>
             IF selectedFiles # <<>>
             THEN Len(reqs') = Len(reqs) + 1 /\ status'.cls = "loading"
             ELSE reqs' = reqs /\ status'.text = SelectAtLeastOne]_vars

\* C11 witness: a submit has just suspended a request and shows the loading
\* status; it is the second submit (both fetches of the second listener are
\* pending) and a file was added (three events besides settlements), while
\* only one request of the first listener is in flight: the first submit
\* ended in an error (for want of files, or by its outcome) before this one.
C11_Witness ==
  /\ steps = 3
  /\ ev.kind = "submit"
  /\ Len(reqs2) = 2
  /\ Len(reqs) = 1
  /\ status.cls = "loading"

\* C12 (as claimed): at no time do two executions of the first submit
\* listener await the response of their fetch('/upload').
C12_AsClaimed ==
  Cardinality({ i \in 1..Len(reqs) : reqs[i].pc = "fetch" }) <= 1

\* C13 (as claimed): while the status shows an error, no event other than a
\* submit changes the status.
C13_AsClaimed ==
  [][(status.cls = "error" /\ ev'.kind # "submit") => status' = status]_vars

\* C14 (as claimed): a submit with files selected in the first callback
\* starts exactly one network request, the fetch calls of both submit
\* listeners counted.
C14_AsClaimed ==
  [][(ev'.kind = "submit" /\ selectedFiles # <<>>) =>
       (Len(reqs') - Len(reqs)) + (Len(reqs2') - Len(reqs2)) = 1]_vars

\* C15: a remove click takes exactly the clicked entry out of the first
\* callback's selection and keeps the others in order; a response handled
\* with the success outcome empties it; every other event (add, drag,
\* submit, any error outcome, any event of the second callback) keeps every
\* entry in place, at most appending new ones.
C15_LosesOnly ==
  [][IF ev'.kind = "remove"
     THEN \E k \in 1..Len(selectedFiles) :
            /\ selectedFiles[k] = ev'.file
            /\ selectedFiles' = RemoveAt(selectedFiles, k)
     ELSE IF ev'.kind = "body" /\ status'.cls = "success"
          THEN selectedFiles' = <<>>
          ELSE IsPrefix(selectedFiles, selectedFiles')]_vars

\* C15 witness: a submission has just ended in an error while two files were
\* selected.
C15_Witness ==
  /\ ev.kind \in FinishKinds
  /\ status.cls = "error"
  /\ Len(selectedFiles) = 2

\* C16 (as claimed): when a submission ends with 'Server response invalid'
\* in the status, its response had a 2xx status and a body that was received
\* and could not be parsed.
C16_AsClaimed ==
  (ev.kind \in FinishKinds /\ status.text = ResponseInvalid) =>
    /\ ev.kind = "body"
    /\ ResOk(ev.http)
    /\ ~JSONparse(ev.text).ok

\* C17 (as claimed): the selection of the second callback never holds two
\* entries with equal (name, size).
C17_AsClaimed == NoDup(selectedFiles2)

\* C18 (as claimed): a submit while the second callback's selection is empty
\* starts no fetch('/notes/upload').
C18_AsClaimed ==
  [][(ev'.kind = "submit" /\ selectedFiles2 = <<>>) => reqs2' = reqs2]_vars

\* C19 (as claimed): between events the children of #fileList are, one to
\* one and in order, the entries of the first callback's selection.
C19_AsClaimed ==
  /\ Len(fileListEl) = Len(selectedFiles)
  /\ \A i \in 1..Len(selectedFiles) : fileListEl[i].file = selectedFiles[i]

\* C20 (as claimed): when a response is handled with the success outcome,
\* every file the selection held just before is among the file parts of the
\* request that succeeded.
C20_AsClaimed ==
  [][(ev'.kind = "body" /\ status'.cls = "success") =>
       \A k \in 1..Len(selectedFiles) :
         \E q \in 1..Len(reqs[ev'.i].parts) :
           reqs[ev'.i].parts[q].file = selectedFiles[k]]_vars
====
